---- MODULE Spec2Model ----
(***************************************************************************)
(* A model of the Thumb assembler of src/src/assembler.ts (and of its      *)
(* compiled build src/bin/assembler.js): the argument converters, the      *)
(* instruction table `ops`, and the two-pass engine assembleInternal /     *)
(* assemble / assembleBlock.                                               *)
(*                                                                         *)
(* JavaScript strings are TLA+ strings (TLC evaluates Len, SubSeq and \o   *)
(* on them); JavaScript int32 values are integers in -2^31 .. 2^31-1 and   *)
(* the bit operators are computed on them as ECMAScript defines them.      *)
(***************************************************************************)
EXTENDS Integers, Sequences, FiniteSets, Bags, TLC

(***************************************************************************)
(* ECMAScript string primitives used by the source.                        *)
(***************************************************************************)

\* s[i] of JavaScript, i counted from 0 ("" past the end, where JS has undefined).
CharAt(s, i) == IF i >= 0 /\ i < Len(s) THEN SubSeq(s, i + 1, i + 1) ELSE ""

\* s.substr(start) for start >= 0.
Substr(s, start) == IF start >= Len(s) THEN "" ELSE SubSeq(s, start + 1, Len(s))

\* s.substr(start, length) for start >= 0.
Substr2(s, start, length) ==
    IF start >= Len(s) \/ length <= 0 THEN ""
    ELSE SubSeq(s, start + 1, IF start + length > Len(s) THEN Len(s) ELSE start + length)

\* s.substr(-1): the last character ("" for the empty string).
LastChar(s) == IF Len(s) = 0 THEN "" ELSE SubSeq(s, Len(s), Len(s))

\* The white space of String.prototype.trim and of /[ \t]/ that a line can hold.
WhiteSpace == {" ", "\t"}

Min(S) == CHOOSE x \in S : \A y \in S : x <= y
Max(S) == CHOOSE x \in S : \A y \in S : x >= y

\* The indices of s that hold no white space.
Inked(s) == {i \in 0..(Len(s) - 1) : CharAt(s, i) \notin WhiteSpace}

TrimStart(s) == IF Inked(s) = {} THEN "" ELSE Substr(s, Min(Inked(s)))

TrimEnd(s) == IF Inked(s) = {} THEN "" ELSE Substr2(s, 0, Max(Inked(s)) + 1)

\* s.trim()
Trim(s) == TrimEnd(TrimStart(s))

\* s.indexOf(c) for a one-character c: the first index, or -1.
IndexOf(s, c) ==
    LET hits == {i \in 0..(Len(s) - 1) : CharAt(s, i) = c}
    IN  IF hits = {} THEN -1 ELSE Min(hits)

\* s.replace(/[ \t]/g, ""), one half of s after the other.
RECURSIVE StripWhiteSpace(_)
StripWhiteSpace(s) ==
    IF Len(s) = 0 THEN ""
    ELSE IF Len(s) = 1 THEN (IF s \in WhiteSpace THEN "" ELSE s)
    ELSE StripWhiteSpace(Substr2(s, 0, Len(s) \div 2))
         \o StripWhiteSpace(Substr(s, Len(s) \div 2))

\* s.split(","): always at least one piece.
RECURSIVE SplitComma(_)
SplitComma(s) ==
    LET k == IndexOf(s, ",")
    IN  IF k < 0 THEN <<s>>
        ELSE <<Substr2(s, 0, k)>> \o SplitComma(Substr(s, k + 1))

(***************************************************************************)
(* ECMAScript numbers.  A number is NaN or an integer; the integers the    *)
(* model computes stay within int32, the range of the bit operators.       *)
(***************************************************************************)
NaN == [nan |-> TRUE, n |-> 0]
Num(n) == [nan |-> FALSE, n |-> n]

Pow2(n) == 2 ^ n

\* The sum of the values of a function into the naturals.
Sum(f) == BagCardinality([x \in {y \in DOMAIN f : f[y] > 0} |-> f[x]])

\* The low 31 bits of an int32, as a natural number.
Low31(x) == IF x >= 0 THEN x ELSE (x + 2147483647) + 1

\* An int32 from its sign bit and its low 31 bits.
Int32Of(neg, low) == IF neg THEN (low - 2147483647) - 1 ELSE low

\* Bit k of a natural.
Bit(a, k) == (a \div Pow2(k)) % 2

\* The bitwise and / or of two naturals below 2^31.
BitAnd(a, b) == Sum([k \in 0..30 |-> Bit(a, k) * Bit(b, k) * Pow2(k)])

BitOr(a, b) == a + b - BitAnd(a, b)

\* x & y
And(x, y) == Int32Of(x < 0 /\ y < 0, BitAnd(Low31(x), Low31(y)))

\* x | y
Or(x, y) == Int32Of(x < 0 \/ y < 0, BitOr(Low31(x), Low31(y)))

\* x << n for 0 <= n <= 31: the low 32-n bits of x moved up, bit 31 the sign.
Shl(x, n) ==
    IF n = 0 THEN x
    ELSE LET k   == 32 - n
             low == IF k = 31 THEN Low31(x) ELSE Low31(x) % Pow2(k)
             top == Pow2(k - 1)
             up(v) == IF v = 0 THEN 0 ELSE v * Pow2(n)
         IN  IF low >= top THEN Int32Of(TRUE, up(low - top)) ELSE up(low)

\* x in the place of x >> n.
SarUnshifted(x, n) == x

\* x >> n for 0 <= n <= 30 (sign-propagating).
Sar(x, n) == x \div Pow2(n)

\* x >> 16 in the place of x >>> 16.
Shr16Signed(x) == x \div 65536

\* x >>> 16
Shr16(x) == IF x >= 0 THEN x \div 65536 ELSE (x \div 65536) + 65536

(***************************************************************************)
(* parseInt                                                                *)
(***************************************************************************)
DecDigits == <<"0", "1", "2", "3", "4", "5", "6", "7", "8", "9">>
HexLower == <<"a", "b", "c", "d", "e", "f">>
HexUpper == <<"A", "B", "C", "D", "E", "F">>

\* The value of each digit character.
DigitValues ==
    [c \in {DecDigits[d] : d \in 1..10} \cup {HexLower[d] : d \in 1..6}
            \cup {HexUpper[d] : d \in 1..6} |->
        IF \E d \in 1..10 : DecDigits[d] = c
        THEN (CHOOSE d \in 1..10 : DecDigits[d] = c) - 1
        ELSE (CHOOSE d \in 1..6 : HexLower[d] = c \/ HexUpper[d] = c) + 9]

\* The value of character c as a digit of radix r, or -1.
DigitVal(c, r) ==
    IF c \in DOMAIN DigitValues /\ DigitValues[c] < r THEN DigitValues[c] ELSE -1

\* The number of leading characters of s from index i that are digits of radix r.
DigitRun(s, i, r) ==
    LET others == {j \in i..(Len(s) - 1) : DigitVal(CharAt(s, j), r) < 0}
    IN  IF i >= Len(s) THEN 0
        ELSE IF others = {} THEN Len(s) - i ELSE Min(others) - i

\* The value of the n digits of s that start at index i.
DigitsValue(s, i, n, r) ==
    Sum([j \in 0..(n - 1) |-> DigitVal(CharAt(s, i + j), r) * (r ^ (n - 1 - j))])

\* parseInt(str, radix) with radix null (0) or 16: leading white space, a
\* sign, an "0x" prefix (which selects radix 16), then the longest run of
\* digits; NaN when that run is empty.
ParseInt(str, radix) ==
    LET Value(neg, s2, r, n) ==
            IF n = 0 THEN NaN
            ELSE Num((IF neg THEN -1 ELSE 1) * DigitsValue(s2, 0, n, r))
        Digits(neg, s2, r) == Value(neg, s2, r, DigitRun(s2, 0, r))
        Prefixed(neg, s1, hex) ==
            Digits(neg, IF hex THEN Substr(s1, 2) ELSE s1,
                   IF radix = 16 \/ hex THEN 16 ELSE 10)
        Unsigned(neg, s1) == Prefixed(neg, s1, Substr2(s1, 0, 2) \in {"0x", "0X"})
        Signed(s0) ==
            Unsigned(CharAt(s0, 0) = "-",
                     IF CharAt(s0, 0) \in {"-", "+"} THEN Substr(s0, 1) ELSE s0)
    IN  Signed(TrimStart(str))

(***************************************************************************)
(* Regular expressions.  A compiled pattern is a sequence of atoms, a      *)
(* literal character or a character class with a quantifier ("1", "+" or   *)
(* "*"), each atom inside capture group g (0: outside every group); a      *)
(* regular expression is a list of alternatives with its ^ and $ anchors.  *)
(* String.prototype.match is the backtracking search of ECMAScript: the    *)
(* leftmost start, the alternatives in order, quantifiers greedy.          *)
(***************************************************************************)
Fail == [ok |-> FALSE, m |-> <<>>]

\* The atoms of the regular expression text src from index i on; g counts the
\* groups opened so far and cur is the group the atom is in.  A "|" is kept
\* as an atom of its own (t = "alt").
RECURSIVE RxAtoms(_, _, _, _)
RxAtoms(src, i, g, cur) ==
    IF i >= Len(src) THEN <<>>
    ELSE LET c == CharAt(src, i)
         IN  IF c = "(" THEN RxAtoms(src, i + 1, g + 1, g + 1)
             ELSE IF c = ")" THEN RxAtoms(src, i + 1, g, 0)
             ELSE IF c = "|"
             THEN <<[t |-> "alt", c |-> c, q |-> "1", g |-> cur]>>
                  \o RxAtoms(src, i + 1, g, cur)
             ELSE LET close == i + 1 + IndexOf(Substr(src, i + 1), "]")
                      end   == IF c = "[" THEN close + 1
                               ELSE IF c = "\\" THEN i + 2 ELSE i + 1
                      quant == CharAt(src, end) \in {"+", "*"}
                      atom  == [t |-> IF c \in {"[", "."} THEN "class" ELSE "lit",
                                c |-> IF c = "[" THEN Substr2(src, i, end - i)
                                      ELSE IF c = "\\" THEN CharAt(src, i + 1) ELSE c,
                                q |-> IF quant THEN CharAt(src, end) ELSE "1",
                                g |-> cur]
                  IN  <<atom>> \o RxAtoms(src, IF quant THEN end + 1 ELSE end, g, cur)

\* The alternatives of a list of atoms: the runs between the "alt" atoms (the
\* one alternation of the table spans its whole pattern).
RECURSIVE RxAlts(_)
RxAlts(atoms) ==
    IF \A k \in 1..Len(atoms) : atoms[k].t # "alt" THEN <<atoms>>
    ELSE LET k == CHOOSE k \in 1..Len(atoms) :
                    atoms[k].t = "alt" /\ \A j \in 1..(k - 1) : atoms[j].t # "alt"
         IN  <<SubSeq(atoms, 1, k - 1)>> \o RxAlts(SubSeq(atoms, k + 1, Len(atoms)))

\* The regular expression literal /src/ (new RegExp("") is src = "").
Rx(src) ==
    LET bol  == CharAt(src, 0) = "^"
        eol  == LastChar(src) = "$"
        body == Substr2(src, IF bol THEN 1 ELSE 0,
                        Len(src) - (IF bol THEN 1 ELSE 0) - (IF eol THEN 1 ELSE 0))
    IN  [bol |-> bol, eol |-> eol, alts |-> RxAlts(RxAtoms(body, 0, 0, 0))]

Digit == {"0", "1", "2", "3", "4", "5", "6", "7", "8", "9"}
Letter ==
    {"a", "b", "c", "d", "e", "f", "g", "h", "i", "j", "k", "l", "m",
     "n", "o", "p", "q", "r", "s", "t", "u", "v", "w", "x", "y", "z",
     "A", "B", "C", "D", "E", "F", "G", "H", "I", "J", "K", "L", "M",
     "N", "O", "P", "Q", "R", "S", "T", "U", "V", "W", "X", "Y", "Z"}

\* Whether character c is in the class written cls in the source.
InClass(c, cls) ==
    CASE cls = "[0-7]"         -> c \in Digit \ {"8", "9"}
      [] cls = "[0-9]"         -> c \in Digit
      [] cls = "[0-9A-Fa-f]"   -> DigitVal(c, 16) >= 0
      [] cls = "[a-zA-Z_]"     -> c \in Letter \cup {"_"}
      [] cls = "[0-9a-zA-Z_]"  -> c \in Letter \cup Digit \cup {"_"}
      [] cls = "[^,]"          -> c # ","
      [] cls = "."             -> c \notin {"\n", "\r"}

AtomMatches(a, c) == IF a.t = "lit" THEN c = a.c ELSE InClass(c, a.c)

\* How many characters of s from index i the atom can take.
AtomRun(a, s, i) ==
    LET others == {j \in i..(Len(s) - 1) : ~AtomMatches(a, CharAt(s, j))}
    IN  IF i >= Len(s) THEN 0
        ELSE IF others = {} THEN Len(s) - i ELSE Min(others) - i

\* The atoms from the k-th on against s from index i: whether they match and,
\* if so, the index after each atom.
RECURSIVE MatchAtoms(_, _, _, _, _)
RECURSIVE TryRun(_, _, _, _, _, _)
MatchAtoms(atoms, k, s, i, eol) ==
    IF k > Len(atoms) THEN [ok |-> (~eol \/ i = Len(s)), m |-> <<>>]
    ELSE LET a == atoms[k]
         IN  IF a.q = "1"
             THEN IF i < Len(s) /\ AtomMatches(a, CharAt(s, i))
                  THEN LET r == MatchAtoms(atoms, k + 1, s, i + 1, eol)
                       IN  [ok |-> r.ok, m |-> <<i + 1>> \o r.m]
                  ELSE Fail
             ELSE TryRun(atoms, k, s, i, eol, AtomRun(a, s, i))

TryRun(atoms, k, s, i, eol, n) ==
    IF n < (IF atoms[k].q = "+" THEN 1 ELSE 0) THEN Fail
    ELSE LET r == MatchAtoms(atoms, k + 1, s, i + n, eol)
         IN  IF r.ok THEN [ok |-> TRUE, m |-> <<i + n>> \o r.m]
             ELSE TryRun(atoms, k, s, i, eol, n - 1)

\* The text of capture group g of a match of atoms that started at st.
Capture(atoms, s, st, cuts, g) ==
    LET idx == {k \in 1..Len(atoms) : atoms[k].g = g}
        lo  == CHOOSE k \in idx : \A j \in idx : k <= j
        hi  == CHOOSE k \in idx : \A j \in idx : k >= j
        b   == IF lo = 1 THEN st ELSE cuts[lo - 1]
    IN  Substr2(s, b, cuts[hi] - b)

NumGroups(atoms) ==
    IF \A k \in 1..Len(atoms) : atoms[k].g = 0 THEN 0
    ELSE CHOOSE g \in 1..Len(atoms) :
            /\ \E k \in 1..Len(atoms) : atoms[k].g = g
            /\ \A k \in 1..Len(atoms) : atoms[k].g <= g

RECURSIVE MatchAlts(_, _, _, _)
MatchAlts(rx, s, st, a) ==
    IF a > Len(rx.alts) THEN Fail
    ELSE LET atoms == rx.alts[a]
             r     == MatchAtoms(atoms, 1, s, st, rx.eol)
         IN  IF r.ok
             THEN [ok |-> TRUE,
                   m  |-> [g \in 1..NumGroups(atoms) |-> Capture(atoms, s, st, r.m, g)]]
             ELSE MatchAlts(rx, s, st, a + 1)

\* s.match(rx): ok, and m[1..] the captured texts, of the leftmost start
\* that matches.
Match(rx, s) ==
    LET starts == {st \in 0..(IF rx.bol THEN 0 ELSE Len(s)) : MatchAlts(rx, s, st, 1).ok}
    IN  IF starts = {} THEN Fail ELSE MatchAlts(rx, s, Min(starts), 1)

(***************************************************************************)
(* Objects as maps.  `key in obj` and obj[key] also see the properties     *)
(* every object literal inherits from Object.prototype, whose values are   *)
(* functions (an object for __proto__): ToNumber of one is NaN, and ToInt32*)
(* of NaN is 0.                                                            *)
(***************************************************************************)
ObjectPrototypeKeys ==
    {"constructor", "toString", "toLocaleString", "valueOf", "hasOwnProperty",
     "isPrototypeOf", "propertyIsEnumerable", "__proto__",
     "__defineGetter__", "__defineSetter__", "__lookupGetter__", "__lookupSetter__"}

\* key in obj, for an object literal with the own properties of table tab.
In(key, tab) == key \in DOMAIN tab \/ key \in ObjectPrototypeKeys

\* ToInt32(obj[key]) when `key in obj`.
GetInt32(tab, key) == IF key \in DOMAIN tab THEN tab[key] ELSE 0

\* What a converter hands back: the bit pattern, or a throw.  bin is the
\* local binValue of convertInt (NaN in the other converters).
Bits(b) == [ok |-> TRUE, bits |-> b, bin |-> NaN]
Throw == [ok |-> FALSE, bits |-> 0, bin |-> NaN]

(***************************************************************************)
(* The argument converters.  A closure of the source (reg(0), uint(0,8,2)) *)
(* is its name with the arguments it was built with; XxxApply is its body. *)
(***************************************************************************)
Closure(f, a, b, c) == [f |-> f, a |-> a, b |-> b, c |-> c]

rlistLrVals ==
    [r \in {"r0", "r1", "r2", "r3", "r4", "r5", "r6", "r7", "lr"} |->
        CASE r = "r0" -> 1   [] r = "r1" -> 2   [] r = "r2" -> 4
          [] r = "r3" -> 8   [] r = "r4" -> 16  [] r = "r5" -> 32
          [] r = "r6" -> 64  [] r = "r7" -> 128 [] r = "lr" -> 256]

regVals ==
    [r \in {"r0", "r1", "r2", "r3", "r4", "r5", "r6", "r7"} |->
        CASE r = "r0" -> 0 [] r = "r1" -> 1 [] r = "r2" -> 2 [] r = "r3" -> 3
          [] r = "r4" -> 4 [] r = "r5" -> 5 [] r = "r6" -> 6 [] r = "r7" -> 7]

reg4Vals ==
    [r \in {"r0", "r1", "r2", "r3", "r4", "r5", "r6", "r7", "r8", "r9", "r10",
            "r11", "r12", "r13", "r14", "r15", "lr", "pc"} |->
        CASE r = "r0" -> 0   [] r = "r1" -> 1   [] r = "r2" -> 2   [] r = "r3" -> 3
          [] r = "r4" -> 4   [] r = "r5" -> 5   [] r = "r6" -> 6   [] r = "r7" -> 7
          [] r = "r8" -> 8   [] r = "r9" -> 9   [] r = "r10" -> 10 [] r = "r11" -> 11
          [] r = "r12" -> 12 [] r = "r13" -> 13 [] r = "r14" -> 14 [] r = "r15" -> 15
          [] r = "lr" -> 14  [] r = "pc" -> 15]

\* rlistLr: the register list of push and pop.
RECURSIVE rlistLrLoop(_, _, _)
rlistLrLoop(regs, k, bits) ==
    IF k > Len(regs) THEN Bits(bits)
    ELSE LET r == Trim(regs[k])
         IN  IF ~In(r, rlistLrVals) THEN Throw
             ELSE rlistLrLoop(regs, k + 1, Or(bits, GetInt32(rlistLrVals, r)))

rlistLr == Closure("rlistLr", 0, 0, 0)
rlistLrApply(value) == rlistLrLoop(SplitComma(value), 1, 0)

reg(regOffset) == Closure("reg", regOffset, 0, 0)
regApply(regOffset, r) ==
    IF ~In(r, regVals) THEN Throw
    ELSE Bits(Shl(GetInt32(regVals, r), regOffset))

reg4(regOffset) == Closure("reg4", regOffset, 0, 0)
reg4Apply(regOffset, r) ==
    IF ~In(r, reg4Vals) THEN Throw
    ELSE Bits(Shl(GetInt32(reg4Vals, r), regOffset))

regOrImmediate(regOffset, immediateBit) ==
    Closure("regOrImmediate", regOffset, immediateBit, 0)
regOrImmediateApply(regOffset, immediateBit, r) ==
    LET Body(regVal) ==
            IF ~regVal.nan /\ regVal.n >= 0 /\ regVal.n < 8
            THEN Bits(Or(Shl(And(regVal.n, 7), regOffset), Shl(1, immediateBit)))
            ELSE IF ~In(r, regVals) THEN Throw
            ELSE Bits(Shl(GetInt32(regVals, r), regOffset))
    IN  Body(ParseInt(r, 0))

\* thumb2ImmediateT3 if its test were v >= 0 && v <= 65536.
thumb2ImmediateT3ApplyOneMore(value) ==
    IF CharAt(value, 0) # "#" THEN Throw
    ELSE LET Body(v) ==
                 IF ~v.nan /\ v.n >= 0 /\ v.n <= 65536
                 THEN LET imm4 == And(Sar(v.n, 12), 15)
                          i    == And(Sar(v.n, 11), 1)
                          imm3 == And(Sar(v.n, 8), 7)
                          imm8 == And(v.n, 255)
                      IN  Bits(Or(Or(Or(Shl(i, 26), Shl(imm4, 16)), Shl(imm3, 12)), imm8))
                 ELSE Throw
         IN  Body(ParseInt(Substr(value, 1), 0))

thumb2ImmediateT3 == Closure("thumb2ImmediateT3", 0, 0, 0)
thumb2ImmediateT3Apply(value) ==
    IF CharAt(value, 0) # "#" THEN Throw
    ELSE LET Body(v) ==
                 IF ~v.nan /\ v.n >= 0 /\ v.n < 65536
                 THEN LET imm4 == And(Sar(v.n, 12), 15)
                          i    == And(Sar(v.n, 11), 1)
                          imm3 == And(Sar(v.n, 8), 7)
                          imm8 == And(v.n, 255)
                      IN  Bits(Or(Or(Or(Shl(i, 26), Shl(imm4, 16)), Shl(imm3, 12)), imm8))
                 ELSE Throw
         IN  Body(ParseInt(Substr(value, 1), 0))

\* convertInt's binValue if labels.PC were the address of the instruction
\* itself instead of that address plus 4.
convertIntBinValueNoPipeline(value, labels) ==
    IF CharAt(value, 0) = "#" THEN [throw |-> FALSE, v |-> ParseInt(Substr(value, 1), 0)]
    ELSE LET Lookup(addValue, name) ==
                 IF In(name, labels)
                 THEN [throw |-> FALSE,
                       v |-> IF name \in DOMAIN labels /\ ~addValue.nan
                             THEN Num(labels[name] + addValue.n - (labels["PC"] - 4))
                             ELSE NaN]
                 ELSE [throw |-> TRUE, v |-> NaN]
             Split(maths) ==
                 IF maths >= 0
                 THEN Lookup(ParseInt(Substr(value, maths), 0), Substr2(value, 0, maths))
                 ELSE Lookup(Num(0), value)
         IN  Split(IndexOf(value, "+"))

\* The local binValue of convertInt: the immediate after '#', or the
\* displacement labels[NAME] + K - labels.PC of a label reference; "throw"
\* for the throw of an unknown label.
convertIntBinValue(value, labels) ==
    IF CharAt(value, 0) = "#" THEN [throw |-> FALSE, v |-> ParseInt(Substr(value, 1), 0)]
    ELSE LET Lookup(addValue, name) ==
                 IF In(name, labels)
                 THEN [throw |-> FALSE,
                       v |-> IF name \in DOMAIN labels /\ ~addValue.nan
                             THEN Num(labels[name] + addValue.n - labels["PC"])
                             ELSE NaN]
                 ELSE [throw |-> TRUE, v |-> NaN]
             Split(maths) ==
                 IF maths >= 0
                 THEN Lookup(ParseInt(Substr(value, maths), 0), Substr2(value, 0, maths))
                 ELSE Lookup(Num(0), value)
         IN  Split(IndexOf(value, "+"))

convertIntMinValue(bits, shift, signed) == IF signed THEN -Shl(1, bits - 1) ELSE 0

\* convertInt's maxValue if it were (1 << bits) << shift, one step too far.
convertIntMaxValueOneMore(bits, shift, signed) ==
    Shl(Shl(1, bits), shift) + convertIntMinValue(bits, shift, signed)

convertIntMaxValue(bits, shift, signed) ==
    Shl(Shl(1, bits) - 1, shift) + convertIntMinValue(bits, shift, signed)

convertInt(offset, bits, shift, signed) ==
    Closure(IF signed THEN "sint" ELSE "uint", offset, bits, shift)
convertIntApply(offset, bits, shift, signed, value, labels) ==
    LET minValue == convertIntMinValue(bits, shift, signed)
        maxValue == convertIntMaxValue(bits, shift, signed)
        Test(threw, binValue) ==
            IF threw \/ binValue.nan THEN [Throw EXCEPT !.bin = binValue]
            ELSE IF /\ binValue.n >= minValue
                    /\ binValue.n <= maxValue
                    /\ And(binValue.n, Shl(1, shift) - 1) = 0
            THEN [ok   |-> TRUE,
                  bits |-> Shl(And(Sar(binValue.n, shift), Shl(1, bits) - 1), offset),
                  bin  |-> binValue]
            ELSE [Throw EXCEPT !.bin = binValue]
        Body(b) == Test(b.throw, b.v)
    IN  Body(convertIntBinValue(value, labels))

uint(offset, bits, shift) == convertInt(offset, bits, shift, FALSE)
sint(offset, bits, shift) == convertInt(offset, bits, shift, TRUE)

\* blAddr: the 22-bit field of sint(0, 22, 1), split into two 11-bit halves.
blAddr == Closure("blAddr", 0, 0, 0)

\* blAddr if it put the low 11 bits in the first half-word.
blAddrApplyLowFirst(value, labels) ==
    LET Halves(normal, v) ==
            IF ~normal.ok THEN normal
            ELSE [normal EXCEPT !.bits = Or(Shl(And(v, 2047), 16), And(Sar(v, 11), 2047))]
        Body(normal) == Halves(normal, normal.bits)
    IN  Body(convertIntApply(0, 22, 1, TRUE, value, labels))

blAddrApply(value, labels) ==
    LET Halves(normal, v) ==
            IF ~normal.ok THEN normal
            ELSE [normal EXCEPT !.bits = Or(Shl(And(Sar(v, 11), 2047), 16), And(v, 2047))]
        Body(normal) == Halves(normal, normal.bits)
    IN  Body(convertIntApply(0, 22, 1, TRUE, value, labels))

\* ToInt32(parseInt(v, radix)) of a text of digits, computed in two 16-bit
\* halves (the value itself can pass 2^31).
RECURSIVE DigitsHalves(_, _, _)
DigitsHalves(s, n, r) ==
    IF n = 0 THEN <<0, 0>>
    ELSE LET p  == DigitsHalves(s, n - 1, r)
             lo == p[2] * r + DigitVal(CharAt(s, n - 1), r)
             hi == p[1] * r + (lo \div 65536)
         IN  <<hi % 65536, lo % 65536>>

Int32OfHalves(h) ==
    IF h[1] >= 32768 THEN (h[1] - 65536) * 65536 + h[2] ELSE h[1] * 65536 + h[2]

\* The two anonymous converters of ".word": (vi >> 16) | (vi << 16).
wordLiteral(radix) == Closure("wordLiteral", radix, 0, 0)
wordLiteralApply(radix, v) ==
    LET r == IF radix = 16 THEN 16 ELSE 10
        Body(vi) == Bits(Or(Sar(vi, 16), Shl(vi, 16)))
    IN  Body(Int32OfHalves(DigitsHalves(v, DigitRun(v, 0, r), r)))

\* argFunction(text, labels)
Call(argFunction, text, labels) ==
    CASE argFunction.f = "rlistLr"           -> rlistLrApply(text)
      [] argFunction.f = "reg"               -> regApply(argFunction.a, text)
      [] argFunction.f = "reg4"              -> reg4Apply(argFunction.a, text)
      [] argFunction.f = "regOrImmediate"    ->
            regOrImmediateApply(argFunction.a, argFunction.b, text)
      [] argFunction.f = "thumb2ImmediateT3" -> thumb2ImmediateT3Apply(text)
      [] argFunction.f = "uint"              ->
            convertIntApply(argFunction.a, argFunction.b, argFunction.c, FALSE, text, labels)
      [] argFunction.f = "sint"              ->
            convertIntApply(argFunction.a, argFunction.b, argFunction.c, TRUE, text, labels)
      [] argFunction.f = "blAddr"            -> blAddrApply(text, labels)
      [] argFunction.f = "wordLiteral"       -> wordLiteralApply(argFunction.a, text)

(***************************************************************************)
(* getOpCode: the template with its placeholders read as 0, as a binary    *)
(* number.  The engine uses the result only through |, >>> and &, or, for  *)
(* a 16-bit template, as a number below 2^16, so it is kept as its ToInt32.*)
(***************************************************************************)
\* The local base: binary[i], or "0" for a placeholder, for every i from lo
\* to hi - 1.
RECURSIVE getOpCodeBase(_, _, _)
getOpCodeBase(binary, lo, hi) ==
    IF hi <= lo THEN ""
    ELSE IF hi = lo + 1
    THEN (IF IndexOf("-_", CharAt(binary, lo)) >= 0 THEN "0" ELSE CharAt(binary, lo))
    ELSE getOpCodeBase(binary, lo, (lo + hi) \div 2)
         \o getOpCodeBase(binary, (lo + hi) \div 2, hi)

\* parseInt(base, 2) of at most 32 binary digits: the last 16 are the low
\* half-word, the ones before them the high half-word.
getOpCode(binary) ==
    LET Halves(base, n, high) ==
            Int32OfHalves(<<DigitsValue(base, 0, high, 2),
                            DigitsValue(base, high, n - high, 2)>>)
        Digits(base, n) == Halves(base, n, IF n > 16 THEN n - 16 ELSE 0)
        Body(base) == Digits(base, DigitRun(base, 0, 2))
    IN  Body(getOpCodeBase(binary, 0, Len(binary)))

(***************************************************************************)
(* The instruction table.                                                  *)
(***************************************************************************)
\* One variant as the table writes it: the template, the text of the regular
\* expression literal, the converters.
Variant(base, regex, args) == [base |-> base, regex |-> regex, args |-> args]

\* The properties of the object literal `ops`, in the order of the source.
opsEntries ==
    <<
      [key |-> "lsl", value |-> <<
            Variant("00000-----___---", "(r[0-7]),(r[0-7]),(#[0-9]+)$",
                    <<reg(0), reg(3), uint(6, 5, 0)>>),
            Variant("0100000010___---", "(r[0-7]),(r[0-7])$",
                    <<reg(0), reg(3)>>)>>],
      [key |-> "lsr", value |-> <<
            Variant("00001-----___---", "(r[0-7]),(r[0-7]),(#[0-9]+)$",
                    <<reg(0), reg(3), uint(6, 5, 0)>>),
            Variant("0100000011___---", "(r[0-7]),(r[0-7])$",
                    <<reg(0), reg(3)>>)>>],
      [key |-> "asr", value |-> <<
            Variant("00010-----___---", "(r[0-7]),(r[0-7]),(#[0-9]+)$",
                    <<reg(0), reg(3), uint(6, 5, 0)>>),
            Variant("0100000100___---", "(r[0-7]),(r[0-7])$",
                    <<reg(0), reg(3)>>)>>],
      [key |-> "cmp", value |-> <<
            Variant("00101---________", "(r[0-7]),(#[0-9]+)$",
                    <<reg(8), uint(0, 8, 0)>>),
            Variant("0100001010___---", "(r[0-7]),(r[0-7])$",
                    <<reg(0), reg(3)>>)>>],
      [key |-> "and", value |-> <<
            Variant("0100000000___---", "(r[0-7]),(r[0-7])$",
                    <<reg(0), reg(3)>>)>>],
      [key |-> "eor", value |-> <<
            Variant("0100000001___---", "(r[0-7]),(r[0-7])$",
                    <<reg(0), reg(3)>>)>>],
      [key |-> "adc", value |-> <<
            Variant("0100000101___---", "(r[0-7]),(r[0-7])$",
                    <<reg(0), reg(3)>>)>>],
      [key |-> "sbc", value |-> <<
            Variant("0100000110___---", "(r[0-7]),(r[0-7])$",
                    <<reg(0), reg(3)>>)>>],
      [key |-> "ror", value |-> <<
            Variant("0100000111___---", "(r[0-7]),(r[0-7])$",
                    <<reg(0), reg(3)>>)>>],
      [key |-> "tst", value |-> <<
            Variant("0100001000___---", "(r[0-7]),(r[0-7])$",
                    <<reg(0), reg(3)>>)>>],
      [key |-> "neg", value |-> <<
            Variant("0100001001___---", "(r[0-7]),(r[0-7])$",
                    <<reg(0), reg(3)>>)>>],
      [key |-> "cmn", value |-> <<
            Variant("0100001011___---", "(r[0-7]),(r[0-7])$",
                    <<reg(0), reg(3)>>)>>],
      [key |-> "orr", value |-> <<
            Variant("0100001100___---", "(r[0-7]),(r[0-7])$",
                    <<reg(0), reg(3)>>)>>],
      [key |-> "mul", value |-> <<
            Variant("0100001101___---", "(r[0-7]),(r[0-7])$",
                    <<reg(0), reg(3)>>)>>],
      [key |-> "bic", value |-> <<
            Variant("0100001110___---", "(r[0-7]),(r[0-7])$",
                    <<reg(0), reg(3)>>)>>],
      [key |-> "mvn", value |-> <<
            Variant("0100001111___---", "(r[0-7]),(r[0-7])$",
                    <<reg(0), reg(3)>>)>>],
      [key |-> "beq", value |-> <<
            Variant("11010000________", "^(.*)$",
                    <<sint(0, 8, 1)>>)>>],
      [key |-> "bne", value |-> <<
            Variant("11010001________", "^(.*)$",
                    <<sint(0, 8, 1)>>)>>],
      [key |-> "bcs", value |-> <<
            Variant("11010010________", "^(.*)$",
                    <<sint(0, 8, 1)>>)>>],
      [key |-> "bcc", value |-> <<
            Variant("11010011________", "^(.*)$",
                    <<sint(0, 8, 1)>>)>>],
      [key |-> "bmi", value |-> <<
            Variant("11010100________", "^(.*)$",
                    <<sint(0, 8, 1)>>)>>],
      [key |-> "bpl", value |-> <<
            Variant("11010101________", "^(.*)$",
                    <<sint(0, 8, 1)>>)>>],
      [key |-> "bvs", value |-> <<
            Variant("11010110________", "^(.*)$",
                    <<sint(0, 8, 1)>>)>>],
      [key |-> "bvc", value |-> <<
            Variant("11010111________", "^(.*)$",
                    <<sint(0, 8, 1)>>)>>],
      [key |-> "bhi", value |-> <<
            Variant("11011000________", "^(.*)$",
                    <<sint(0, 8, 1)>>)>>],
      [key |-> "bls", value |-> <<
            Variant("11011001________", "^(.*)$",
                    <<sint(0, 8, 1)>>)>>],
      [key |-> "bge", value |-> <<
            Variant("11011010________", "^(.*)$",
                    <<sint(0, 8, 1)>>)>>],
      [key |-> "blt", value |-> <<
            Variant("11011011________", "^(.*)$",
                    <<sint(0, 8, 1)>>)>>],
      [key |-> "bgt", value |-> <<
            Variant("11011100________", "^(.*)$",
                    <<sint(0, 8, 1)>>)>>],
      [key |-> "ble", value |-> <<
            Variant("11011101________", "^(.*)$",
                    <<sint(0, 8, 1)>>)>>],
      [key |-> "b", value |-> <<
            Variant("11100___________", "^(.*)$",
                    <<sint(0, 11, 1)>>)>>],
      [key |-> "bl", value |-> <<
            Variant("11110___________11111___________", "^(.*)$",
                    <<blAddr>>)>>],
      [key |-> "bx", value |-> <<
            Variant("010001110----000", "(lr|r[0-9]+)$",
                    <<reg4(3)>>)>>],
      [key |-> "adr", value |-> <<
            Variant("10100---________", "^(r[0-7]),([a-zA-Z_][0-9a-zA-Z_]*)$",
                    <<reg(8), uint(0, 8, 2)>>),
            Variant("10100---________", "^(r[0-7]),([a-zA-Z_][0-9a-zA-Z_]*\\+[0-9]+)$",
                    <<reg(8), uint(0, 8, 2)>>)>>],
      [key |-> "push", value |-> <<
            Variant("1011010-________", "^{(.*)}$",
                    <<rlistLr>>)>>],
      [key |-> "pop", value |-> <<
            Variant("1011110-________", "^{(.*)}$",
                    <<rlistLr>>)>>],
      [key |-> "add", value |-> <<
            Variant("00110---________", "(r[0-7]),(#[0-9]+)$",
                    <<reg(8), uint(0, 8, 0)>>),
            Variant("10100---________", "^(r[0-7]),pc,(#[0-9]+)$",
                    <<reg(8), uint(0, 8, 2)>>),
            Variant("10101---________", "^(r[0-7]),sp,(#[0-9]+)$",
                    <<reg(8), uint(0, 8, 2)>>),
            Variant("101100000_______", "^sp,(#[0-9]+)$",
                    <<uint(0, 7, 2)>>),
            Variant("00011-0___---___", "^(r[0-7]),(r[0-7]),([^,]+)$",
                    <<reg(0), reg(3), regOrImmediate(6, 10)>>)>>],
      [key |-> "adds", value |-> <<
            Variant("00011-0___---___", "^(r[0-7]),(r[0-7]),([^,]+)$",
                    <<reg(0), reg(3), regOrImmediate(6, 10)>>)>>],
      [key |-> "adc.w", value |-> <<
            Variant("111010110100----________--------", "^(r[0-7]),(r[0-7]),(r[0-7])$",
                    <<reg(16), reg(8), reg(0)>>)>>],
      [key |-> "add.w", value |-> <<
            Variant("11110001--------________--------", "^(r[0-7]),(r[0-7]),(#[0-9]+)$",
                    <<reg(16), reg(8), uint(0, 8, 0)>>)>>],
      [key |-> "sub", value |-> <<
            Variant("00111---________", "(r[0-7]),(#[0-9]+)$",
                    <<reg(8), uint(0, 8, 0)>>),
            Variant("101100001_______", "^sp,(#[0-9]+)$",
                    <<uint(0, 7, 2)>>),
            Variant("00011-1___---___", "^([^,]+),([^,]+),([^,]+)$",
                    <<reg(0), reg(3), regOrImmediate(6, 10)>>)>>],
      [key |-> "str", value |-> <<
            Variant("0101000---___---", "(r[0-7]),\\[(r[0-7]),(r[0-7])\\]$",
                    <<reg(0), reg(3), reg(6)>>),
            Variant("10010---________", "(r[0-7]),\\[sp,(#[0-9]+)\\]$",
                    <<reg(8), uint(0, 8, 2)>>),
            Variant("0110000000___---", "(r[0-7]),\\[(r[0-7])\\]$",
                    <<reg(0), reg(3)>>),
            Variant("0110000---___---", "(r[0-7]),\\[(r[0-7]),(#[0-9]+)\\]$",
                    <<reg(0), reg(3), uint(6, 5, 2)>>)>>],
      [key |-> "strb", value |-> <<
            Variant("0101010---___---", "(r[0-7]),\\[(r[0-7]),(r[0-7])\\]$",
                    <<reg(0), reg(3), reg(6)>>),
            Variant("0111000---___---", "(r[0-7]),\\[(r[0-7]),(#[0-9]+)\\]$",
                    <<reg(0), reg(3), uint(6, 5, 2)>>)>>],
      [key |-> "ldr", value |-> <<
            Variant("01001---________", "(r[0-7]),\\[pc,(#[0-9]+)\\]$",
                    <<reg(8), uint(0, 8, 2)>>),
            Variant("10011---________", "(r[0-7]),\\[sp,(#[0-9]+)\\]$",
                    <<reg(8), uint(0, 8, 2)>>),
            Variant("01001---________", "(r[0-7]),([a-zA-Z_][0-9a-zA-Z_]*)$",
                    <<reg(8), uint(0, 8, 2)>>),
            Variant("01001---________", "(r[0-7]),([a-zA-Z_][0-9a-zA-Z_]*\\+[0-9]+)$",
                    <<reg(8), uint(0, 8, 2)>>),
            Variant("0101100---___---", "(r[0-7]),\\[(r[0-7]),(r[0-7])\\]$",
                    <<reg(0), reg(3), reg(6)>>),
            Variant("0110100000___---", "(r[0-7]),\\[(r[0-7])\\]$",
                    <<reg(0), reg(3)>>),
            Variant("0110100---___---", "(r[0-7]),\\[(r[0-7]),(#[0-9]+)\\]$",
                    <<reg(0), reg(3), uint(6, 5, 2)>>)>>],
      [key |-> "ldrb", value |-> <<
            Variant("0101110---___---", "(r[0-7]),\\[(r[0-7]),(r[0-7])\\]$",
                    <<reg(0), reg(3), reg(6)>>),
            Variant("0110100---___---", "(r[0-7]),\\[(r[0-7]),(#[0-9]+)\\]$",
                    <<reg(0), reg(3), uint(6, 5, 2)>>)>>],
      [key |-> "mov", value |-> <<
            Variant("00100---________", "(r[0-7]),(#[0-9]+)$",
                    <<reg(8), uint(0, 8, 0)>>),
            Variant("0001110000---___", "(r[0-7]),(r[0-7])$",
                    <<reg(0), reg(3)>>),
            Variant("0100011010---101", "sp,(r[0-7])$",
                    <<reg(3)>>)>>],
      [key |-> "movs", value |-> <<
            Variant("00100---________", "(r[0-7]),(#[0-9]+)$",
                    <<reg(8), uint(0, 8, 0)>>)>>],
      [key |-> "movw", value |-> <<
            Variant("11110-100100----0___----________", "(r[0-7]),(#[0-9]+)$",
                    <<reg4(8), thumb2ImmediateT3>>)>>],
      [key |-> ".word", value |-> <<
            Variant("--------------------------------", "0x([0-9A-Fa-f]+)$",
                    <<wordLiteral(16)>>),
            Variant("--------------------------------", "([0-9]+)$",
                    <<wordLiteral(0)>>)>>],
      [key |-> "nop", value |-> <<
            Variant("0100011011000000", "",
                    <<>>)>>],
      [key |-> "cpsie", value |-> <<
            Variant("1011011001100010", "i",
                    <<>>)>>],
      [key |-> "cpsid", value |-> <<
            Variant("1011011001110010", "i",
                    <<>>)>>],
      [key |-> "wfe", value |-> <<
            Variant("1011111100100000", "i",
                    <<>>)>>],
      [key |-> "wfi", value |-> <<
            Variant("1011111100110000", "i",
                    <<>>)>>],
      [key |-> "bkpt", value |-> <<
            Variant("10111110--------", "(#[0-9]+)$",
                    <<uint(0, 8, 0)>>)>>]
    >>

\* ops[opName]: the variants of a mnemonic, each with its regular expression
\* compiled and with opCode, the getOpCode(op.base) the engine computes anew
\* each time it selects the variant.
ops ==
    LET Compile(op) ==
            [base |-> op.base, regex |-> Rx(op.regex), args |-> op.args,
             opCode |-> getOpCode(op.base)]
        Value(variants) == [v \in DOMAIN variants |-> Compile(variants[v])]
        Table(entries) ==
            [opName \in {entries[k].key : k \in DOMAIN entries} |->
                Value(entries[CHOOSE k \in DOMAIN entries : entries[k].key = opName].value)]
    IN  Table(opsEntries)

\* The mnemonics: the own properties of ops.
opNames == DOMAIN ops

\* opName in ops
InOps(opName) == In(opName, ops)

(***************************************************************************)
(* Number.prototype.toString                                               *)
(***************************************************************************)
RECURSIVE NatToString(_, _)
NatToString(n, radix) ==
    LET d == n % radix
        c == IF d < 10 THEN DecDigits[d + 1] ELSE HexLower[d - 9]
    IN  IF n < radix THEN c ELSE NatToString(n \div radix, radix) \o c

\* n.toString(radix)
NumberToString(n, radix) ==
    IF n < 0 THEN "-" \o NatToString(-n, radix) ELSE NatToString(n, radix)

(***************************************************************************)
(* The callback of asmLines.forEach in assembleInternal, for one line: the *)
(* locals it ends with, the words it handed to wordCallback, and the addr, *)
(* newLabels and labels it leaves.  labels is [undefined |-> TRUE] in the  *)
(* first pass; in the second it is the object the first pass returned.     *)
(***************************************************************************)
Undefined == [undefined |-> TRUE, tab |-> <<>>]
Defined(tab) == [undefined |-> FALSE, tab |-> tab]

\* obj[key] = value
Put(tab, key, value) ==
    [k \in DOMAIN tab \cup {key} |-> IF k = key THEN value ELSE tab[k]]

\* The search of ops[opName]: the index v of the first variant from the k-th
\* whose regex matches (0: none), and its match m.
RECURSIVE FindVariant(_, _, _)
FindVariant(variants, args, k) ==
    IF k > Len(variants) THEN [v |-> 0, m |-> <<>>]
    ELSE LET Test(r) ==
                 IF r.ok THEN [v |-> k, m |-> r.m]
                 ELSE FindVariant(variants, args, k + 1)
         IN  Test(Match(variants[k].regex, args))

\* The loop over op.args: opCode |= argFunction(m[i + 1], labels), to the
\* first converter that throws.  conv lists what each converter returned.
RECURSIVE RunArgs(_, _, _, _, _, _)
RunArgs(op, m, labels, i, opCode, conv) ==
    IF i > Len(op.args) THEN [ok |-> TRUE, opCode |-> opCode, conv |-> conv]
    ELSE LET Step(bits) ==
                 IF ~bits.ok
                 THEN [ok |-> FALSE, opCode |-> opCode, conv |-> Append(conv, bits)]
                 ELSE RunArgs(op, m, labels, i + 1, Or(opCode, bits.bits),
                              Append(conv, bits))
         IN  Step(Call(op.args[i], m[i], labels))

NoLocals ==
    [opName |-> "", args |-> "", variant |-> 0, base |-> "", m |-> <<>>,
     conv |-> <<>>, opCode |-> 0]

\* The outcome if addr counted half-words instead of bytes.
OutcomeInHalfWords(kind, threw, line, locals, words, addr, newLabels, labels) ==
    [kind |-> kind, threw |-> threw, line |-> line, locals |-> locals,
     words |-> words, addr |-> addr \div 2, newLabels |-> newLabels, labels |-> labels]

Outcome(kind, threw, line, locals, words, addr, newLabels, labels) ==
    [kind |-> kind, threw |-> threw, line |-> line, locals |-> locals,
     words |-> words, addr |-> addr, newLabels |-> newLabels, labels |-> labels]

\* The instruction branch of the callback: tokenise, look the mnemonic up,
\* take the first variant that matches, convert its arguments, emit.
Instruction(line, addr, newLabels, labels) ==
    LET thrown(l) == Outcome("instruction", TRUE, line, l, <<>>, addr, newLabels, labels)
        Emit(op, run, loc) ==
            IF ~run.ok THEN thrown(loc)
            ELSE IF Len(op.base) > 16
            THEN Outcome("instruction", FALSE, line, loc,
                         <<Shr16(run.opCode), And(run.opCode, 65535)>>,
                         addr + 4, newLabels, labels)
            ELSE Outcome("instruction", FALSE, line, loc,
                         <<run.opCode>>, addr + 2, newLabels, labels)
        Convert(tok, v, op, m, run) ==
            Emit(op, run, [tok EXCEPT !.variant = v, !.base = op.base, !.m = m,
                                      !.conv = run.conv, !.opCode = run.opCode])
        Select(tok, v, op, m) ==
            Convert(tok, v, op, m,
                    IF labels.undefined
                    THEN [ok |-> TRUE, opCode |-> op.opCode, conv |-> <<>>]
                    ELSE RunArgs(op, m, labels.tab, 1, op.opCode, <<>>))
        Search(tok, variants, found) ==
            IF found.v = 0 THEN thrown(tok)
            ELSE Select(tok, found.v, variants[found.v], found.m)
        Lookup(tok, table) ==
            IF ~In(tok.opName, table) THEN thrown(tok)
            \* an inherited property is no array: `for (const op of ...)` throws
            ELSE IF tok.opName \notin DOMAIN table THEN thrown(tok)
            ELSE Search(tok, table[tok.opName],
                        FindVariant(table[tok.opName], tok.args, 1))
        Tokens(firstArgEnd) ==
            Lookup([NoLocals EXCEPT !.opName = Substr2(line, 0, firstArgEnd),
                                    !.args = Trim(StripWhiteSpace(Substr(line, firstArgEnd)))],
                   ops)
        Split(tab, space) ==
            Tokens(IF tab >= 0 THEN tab ELSE IF space >= 0 THEN space ELSE Len(line))
    IN  Split(IndexOf(line, "\t"), IndexOf(line, " "))

ForEachLine(rawLine, addr, newLabels, labels0) ==
    LET labels == IF labels0.undefined THEN labels0
                  ELSE Defined(Put(labels0.tab, "PC", addr + 4))
        line   == Trim(rawLine)
    IN  IF line = ""
        THEN Outcome("blank", FALSE, line, NoLocals, <<>>, addr, newLabels, labels)
        ELSE IF LastChar(line) = ":"
        THEN LET labelName == Substr2(line, 0, Len(line) - 1)
             IN  IF In(labelName, newLabels)
                 THEN Outcome("label", TRUE, line, NoLocals, <<>>, addr, newLabels, labels)
                 ELSE Outcome("label", FALSE, line, NoLocals, <<>>, addr,
                              Put(newLabels, labelName, addr), labels)
        ELSE Instruction(line, addr, newLabels, labels)

(***************************************************************************)
(* The inputs: the fragments assembleBlock is called with.                 *)
(***************************************************************************)
\* The longest fragment built from CoreLines.
MaxLines == 3
\* Immediates #0 .. #MaxImm are tried in every unsigned immediate field.
MaxImm == 1030
\* Immediates #-MaxDisp .. #MaxDisp are tried as branch displacements.
MaxDisp == 400
\* The immediates of movw go up to 2^MaxBit + 1.
MaxBit == 17

\* The scenarios of the documentation, and lines the claims name.
Scenarios ==
    { <<"mov r0,#42">>,
      <<"nop">>,
      <<"loop:", "  sub r0,#1", "  bne loop">>,
      <<"  bl target", "  nop", "target:", "  bx lr">>,
      <<"movw r1,#0x1234">>,
      <<"movw r1,#4660">>,
      <<"mov r0,#255">>,
      <<"mov r0,#256">>,
      <<"wfe">>, <<"wfi">>, <<"wfe i">>, <<"wfi i">>, <<"cpsie i">>, <<"cpsid i">>,
      <<"nop", "nop">>, <<"nop", "nop", "nop">>,
      <<"mov r0,\t#1">>, <<"mov\tr0, #1">>, <<"mov r0, #1">>,
      <<"nop r0">>, <<"frob r0">>, <<"">>,
      <<"toString:">>, <<"constructor:", "nop">>, <<"b toString">>,
      <<"a:", "nop", "a:">>, <<"nop", "a:", "nop", "a:", "b a">>,
      <<".word 0x12345678">>, <<".word 0x80000000">>, <<".word 0xFFFFFFFF">>,
      <<".word 0x7FFFFFFF">>, <<".word 65536">>, <<".word 2147483648">>,
      <<".word 4294967295">>, <<".word 305419896">> }

\* Labels, references to them, 16-bit and 32-bit instructions, a blank line.
CoreLines == {"a:", "PC:", "nop", "bl a", "bne a", "b a+2", "b PC", " \t"}

RECURSIVE SeqsUpTo(_, _)
SeqsUpTo(S, n) ==
    IF n = 0 THEN {<<>>}
    ELSE LET shorter == SeqsUpTo(S, n - 1)
         IN  shorter \cup {Append(s, x) : s \in {q \in shorter : Len(q) = n - 1}, x \in S}

CoreFragments == SeqsUpTo(CoreLines, MaxLines) \ {<<>>}

\* Argument texts, one or more for every pattern of the table.
Operands ==
    { "", "i", "lr", "r0", "r12", "r16", "pc",
      "r0,r1", "r7,r7", "r8,r0", "sp,r3",
      "r2,#0", "r2,#255", "r5,#1020", "r0,r1,#3", "r0,r1,#31", "r3,r4,#124",
      "r0,r1,r2", "r7,r6,r5", "r0,r1,7", "r0,r1,8", "r0,r1,r9",
      "r0,pc,#1020", "r1,sp,#4", "r1,sp,#6", "sp,#508", "sp,#512",
      "r0,[r1,r2]", "r7,[r7,r7]", "r0,[r1]", "r0,[r1,#0]", "r0,[r1,#64]",
      "r3,[r4,#124]", "r0,[r1,#126]", "r0,[sp,#8]", "r6,[sp,#1020]",
      "r0,[pc,#16]", "r0,[pc,#1024]",
      "{r0}", "{r0,r1,lr}", "{r4, r7}", "{}", "{r8}",
      "#0", "#200", "#256", "#65535", "r1,#4660", "r9,#1", "r1,#65535",
      "r1,#65536", "0x1234", "0xABCDEF", "1234", "70000", "a", "r0,a" }

\* One instruction line on its own: every mnemonic with every argument text.
OperandFragments ==
    { <<op \o " " \o operand>> : op \in opNames, operand \in Operands }

\* An instruction that names the label behind the next line.
LabelOperands == {"a", "a+2", "a+4", "r0,a", "r1,a+4", "r2,a+1"}
LabelFragments ==
    { <<op \o " " \o operand, "nop", "a:">> : op \in opNames, operand \in LabelOperands }

\* Every unsigned immediate field of the table, over #0 .. #MaxImm.
ImmediateFragments ==
    { <<"lsl r1,r2,#" \o NumberToString(v, 10)>> : v \in 0..MaxImm } \cup
    { <<"mov r3,#" \o NumberToString(v, 10)>> : v \in 0..MaxImm } \cup
    { <<"add r4,sp,#" \o NumberToString(v, 10)>> : v \in 0..MaxImm } \cup
    { <<"add sp,#" \o NumberToString(v, 10)>> : v \in 0..MaxImm } \cup
    { <<"str r5,[r6,#" \o NumberToString(v, 10) \o "]">> : v \in 0..MaxImm }

\* The signed fields of the branches, over #-MaxDisp .. #MaxDisp.
DisplacementFragments ==
    { <<"beq #" \o NumberToString(v, 10)>> : v \in (-MaxDisp)..MaxDisp } \cup
    { <<"b #" \o NumberToString(v, 10)>> : v \in (-MaxDisp)..MaxDisp } \cup
    { <<"bl #" \o NumberToString(v, 10)>> : v \in (-MaxDisp)..MaxDisp }

\* The immediates of movw: 2^k - 1, 2^k and 2^k + 1 for k up to MaxBit,
\* and values that set every field.
Thumb2Values ==
    UNION {{2 ^ k - 1, 2 ^ k, 2 ^ k + 1} : k \in 0..MaxBit}
    \cup {2047, 4660, 21845, 43690, 43981, 63487, 70000}
Thumb2Fragments ==
    { <<"movw r3,#" \o NumberToString(v, 10)>> : v \in Thumb2Values }
    \cup { <<"movw r3,4660">>, <<"movw r3,#-1">>, <<"movw r3,#">> }

\* A branch to a label d + 4 bytes further on: the lines between them are
\* '.word 0', four bytes each, and one 'nop' when two bytes are left.
FarBranch(op, d) ==
    <<op \o " a">> \o [w \in 1..((d + 2) \div 4) |-> ".word 0"]
    \o (IF (d + 2) % 4 = 2 THEN <<"nop">> ELSE <<>>) \o <<"a:">>

\* Conditional branches around the end of their forward range.
FarBranchFragments ==
    { FarBranch(op, d) : op \in {"beq", "bne"}, d \in {252, 254, 256, 258} }

Fragments ==
    Scenarios \cup CoreFragments \cup OperandFragments \cup LabelFragments
    \cup ImmediateFragments \cup DisplacementFragments \cup Thumb2Fragments
    \cup FarBranchFragments

\* The TypeScript source and the compiled JavaScript the package ships.
Builds == {"src", "bin"}

(***************************************************************************)
(* The state of one call assembleBlock(asmLines).                          *)
(***************************************************************************)
VARIABLES
    build,        \* which assembleBlock runs: src/assembler.ts or bin/assembler.js
    asmLines,     \* the argument
    pc,           \* "pass1", "pass2" (the two assembleInternal calls), "returned"
    lineNo,       \* the line forEach hands to the callback next
    addr,         \* assembleInternal's addr
    newLabels,    \* assembleInternal's newLabels
    labels,       \* assembleInternal's labels parameter
    machineCode,  \* assembleBlock's machineCode
    result,       \* what assembleBlock returned
    log1,         \* the callback's outcome for each line of the first pass
    log2,         \* the same for the second pass
    calls         \* the earlier calls of assembleBlock: their arguments and results

vars == <<build, asmLines, pc, lineNo, addr, newLabels, labels, machineCode,
          result, log1, log2, calls>>

NoResult == [undefined |-> TRUE, value |-> <<>>]

Init ==
    /\ build \in Builds
    /\ asmLines \in Fragments
    /\ pc = "pass1"
    /\ lineNo = 1
    /\ addr = 0
    /\ newLabels = <<>>
    /\ labels = Undefined
    /\ machineCode = <<>>
    /\ result = NoResult
    /\ log1 = <<>>
    /\ log2 = <<>>
    /\ calls = <<>>

\* wordCallback of assembleBlock: machineCode.push("0x" + word.toString(16))
\* in the source, machineCode.push(word) in the compiled build.
Push(code, word) ==
    Append(code, IF build = "src" THEN "0x" \o NumberToString(word, 16) ELSE word)

RECURSIVE PushAll(_, _)
PushAll(code, words) ==
    IF words = <<>> THEN code ELSE PushAll(Push(code, Head(words)), Tail(words))

\* What the log keeps of a callback: whether it threw, the trimmed line, its
\* locals, the words it handed to wordCallback, and the addr and newLabels
\* it left.
Logged(o) ==
    [kind |-> o.kind, threw |-> o.threw, line |-> o.line, locals |-> o.locals,
     words |-> o.words, addr |-> o.addr, newLabels |-> o.newLabels]

\* A catch clause that returned what had been emitted before the throw.
CatchPartial(code) == [undefined |-> FALSE, value |-> code]

\* The catch clause of assembleBlock: return undefined.
Catch(code) == NoResult

\* One call of the forEach callback.  A throw leaves both assembleInternal
\* and assemble, and assembleBlock's catch returns undefined.
Line ==
    /\ pc \in {"pass1", "pass2"}
    /\ lineNo <= Len(asmLines)
    /\ \E o \in {ForEachLine(asmLines[lineNo], addr, newLabels, labels)} :
           /\ log1' = IF pc = "pass1" THEN Append(log1, Logged(o)) ELSE log1
           /\ log2' = IF pc = "pass2" THEN Append(log2, Logged(o)) ELSE log2
           /\ labels' = o.labels
           /\ IF o.threw
              THEN /\ pc' = "returned"
                   /\ result' = Catch(machineCode)
                   /\ UNCHANGED <<lineNo, addr, newLabels, machineCode>>
              ELSE /\ lineNo' = lineNo + 1
                   /\ addr' = o.addr
                   /\ newLabels' = o.newLabels
                   /\ machineCode' = IF pc = "pass2" THEN PushAll(machineCode, o.words)
                                     ELSE machineCode
                   /\ UNCHANGED <<pc, result>>
    /\ UNCHANGED <<build, asmLines, calls>>

\* The second pass if addr were not made anew by each assembleInternal.
SecondPassKeepAddr ==
    /\ pc = "pass1"
    /\ lineNo > Len(asmLines)
    /\ pc' = "pass2"
    /\ labels' = Defined(newLabels)
    /\ newLabels' = <<>>
    /\ addr' = addr
    /\ lineNo' = 1
    /\ UNCHANGED <<build, asmLines, machineCode, result, log1, log2, calls>>

\* assemble: the first assembleInternal returns newLabels, and the second
\* starts with it as labels.
SecondPass ==
    /\ pc = "pass1"
    /\ lineNo > Len(asmLines)
    /\ pc' = "pass2"
    /\ labels' = Defined(newLabels)
    /\ newLabels' = <<>>
    /\ addr' = 0
    /\ lineNo' = 1
    /\ UNCHANGED <<build, asmLines, machineCode, result, log1, log2, calls>>

\* new Uint32Array(machineCode)[k] for a word below 2^31.
ToUint32(word) == IF word >= 0 THEN word ELSE (word + 2147483647) + 2147483647 + 2

\* assembleBlock returns: machineCode in the source; in the compiled build
\* machineCode padded with a 0 to an even length, as a Uint32Array.
Return ==
    /\ pc = "pass2"
    /\ lineNo > Len(asmLines)
    /\ pc' = "returned"
    /\ result' =
         [undefined |-> FALSE,
          value |-> IF build = "src" THEN machineCode
                    ELSE LET padded == IF Len(machineCode) % 2 = 1
                                       THEN Append(machineCode, 0) ELSE machineCode
                         IN  [k \in 1..Len(padded) |-> ToUint32(padded[k])]]
    /\ UNCHANGED <<build, asmLines, lineNo, addr, newLabels, labels, machineCode,
                   log1, log2, calls>>

Next == Line \/ SecondPass \/ Return

Spec == Init /\ [][Next]_vars

(***************************************************************************)
(* A program that calls assembleBlock several times.  Nothing of the       *)
(* module outlives a call but `ops`, which no statement assigns to and     *)
(* whose regular expressions carry no g or y flag, so that match() leaves  *)
(* their lastIndex alone: the table is the same constant in every call.    *)
(***************************************************************************)
\* The calls one program makes.
MaxCalls == 3

\* Fragments that assemble, that fail in pass 1 and that fail in pass 2.
CallFragments ==
    { <<"nop">>, <<"a:", "b a">>, <<"b a">>, <<"a:", "a:">>, <<"bl a", "nop", "a:">>,
      <<"mov r0,#256">>, <<".word 0x10">>, <<"PC:", "b PC">> }

InitCalls ==
    /\ build \in Builds
    /\ asmLines \in CallFragments
    /\ pc = "pass1"
    /\ lineNo = 1
    /\ addr = 0
    /\ newLabels = <<>>
    /\ labels = Undefined
    /\ machineCode = <<>>
    /\ result = NoResult
    /\ log1 = <<>>
    /\ log2 = <<>>
    /\ calls = <<>>

\* machineCode if it were one array of the module, shared by the calls.
SharedMachineCode(previous) == previous

\* const machineCode = [] of assembleBlock: a new array in every call.
NewMachineCode(previous) == <<>>

\* The program calls assembleBlock again: assembleBlock makes its
\* machineCode, assemble starts the first assembleInternal with labels
\* undefined, and assembleInternal makes its addr and newLabels.
Again ==
    /\ pc = "returned"
    /\ Len(calls) < MaxCalls - 1
    /\ calls' = Append(calls, [asmLines |-> asmLines, result |-> result])
    /\ asmLines' \in CallFragments
    /\ pc' = "pass1"
    /\ lineNo' = 1
    /\ addr' = 0
    /\ newLabels' = <<>>
    /\ labels' = Undefined
    /\ machineCode' = NewMachineCode(machineCode)
    /\ result' = NoResult
    /\ log1' = <<>>
    /\ log2' = <<>>
    /\ UNCHANGED build

NextCalls == Next \/ Again

SpecCalls == InitCalls /\ [][NextCalls]_vars

(***************************************************************************)
(* The properties.  They read the two logs: log2[k] is what the callback   *)
(* did with line k in the second pass.                                     *)
(***************************************************************************)
Returned == pc = "returned"
Assembled == pc = "returned" /\ ~result.undefined

\* The words handed to wordCallback by the first k lines of a log.
RECURSIVE WordsOf(_, _)
WordsOf(log, k) == IF k = 0 THEN <<>> ELSE WordsOf(log, k - 1) \o log[k].words

EmittedWords == WordsOf(log2, Len(log2))

\* The sizes of the instruction lines before line k: 2 for a 16-bit
\* template, 4 for a 32-bit one.
RECURSIVE SizesBefore(_, _)
SizesBefore(log, k) ==
    IF k <= 1 THEN 0
    ELSE SizesBefore(log, k - 1)
         + (IF log[k - 1].kind # "instruction" THEN 0
            ELSE IF Len(log[k - 1].locals.base) > 16 THEN 4 ELSE 2)

\* The converter paired with the i-th argument of a logged instruction.
ArgFunction(e, i) == ops[e.locals.opName][e.locals.variant].args[i]

\* The arguments of line k that a converter of the convertInt family read.
IntArgs(log, k) ==
    { i \in 1..Len(log[k].locals.conv) :
        ArgFunction(log[k], i).f \in {"uint", "sint", "blAddr"} }

\* A label reference NAME or NAME+K: its NAME and its K.
IsLabelRef(text) == text # "" /\ CharAt(text, 0) # "#"
RefName(text) ==
    IF IndexOf(text, "+") >= 0 THEN Substr2(text, 0, IndexOf(text, "+")) ELSE text
RefOffset(text) ==
    IF IndexOf(text, "+") >= 0 THEN ParseInt(Substr(text, IndexOf(text, "+")), 0) ELSE Num(0)

\* The lines 'NAME:' of the fragment.
LabelLines(name) ==
    { k \in 1..Len(log2) : log2[k].kind = "label" /\ log2[k].line = name \o ":" }

\* C1: in a fragment that assembles, a label reference NAME or NAME+K in an
\* instruction at byte address A resolves in pass 2 to
\* labels[NAME] + K - (A + 4), labels[NAME] being the sum of the sizes of the
\* instruction lines before the line 'NAME:', whether that line comes before
\* the instruction or after it.
C1_LabelDisplacement ==
    Assembled =>
        \A k \in 1..Len(log2) : \A i \in IntArgs(log2, k) :
            LET text == log2[k].locals.m[i]
            IN  (IsLabelRef(text) /\ ~RefOffset(text).nan) =>
                    \A d \in LabelLines(RefName(text)) :
                        log2[k].locals.conv[i].bin =
                            Num(SizesBefore(log2, d) + RefOffset(text).n
                                - (SizesBefore(log2, k) + 4))

\* C2: 'loop:', 'sub r0,#1', 'bne loop' assembles, and the half-words emitted
\* are 0x3801 then 0xD1FD: the bne at address 2 sees PC = 6, its displacement
\* is -6 and its field 0xFD.
C2_BackwardBranch ==
    (Returned /\ asmLines = <<"loop:", "  sub r0,#1", "  bne loop">>) =>
        /\ ~result.undefined
        /\ EmittedWords = <<14337, 53757>>
        /\ log2[3].locals.conv[1].bin = Num(-6)
        /\ log2[3].locals.conv[1].bits = 253

C2_Witness ==
    /\ Assembled
    /\ asmLines = <<"loop:", "  sub r0,#1", "  bne loop">>
    /\ Len(log2) = 3

\* C3: 'bl LABEL' with an accepted displacement d emits
\* 0xF000 | ((v >> 11) & 0x7FF) then 0xF800 | (v & 0x7FF), v being
\* (d >> 1) & 0x3FFFFF; 'bl target', 'nop', 'target:', 'bx lr' puts target
\* at 6 and emits 0xF000, 0xF801, 0x46C0, 0x4770.
C3_LongBranch ==
    /\ \A k \in 1..Len(log2) :
        (log2[k].locals.opName = "bl" /\ ~log2[k].threw) =>
            LET d == log2[k].locals.conv[1].bin.n
                v == (d \div 2) % 4194304
            IN  log2[k].words = <<61440 + ((v \div 2048) % 2048), 63488 + (v % 2048)>>
    /\ (Returned /\ asmLines = <<"  bl target", "  nop", "target:", "  bx lr">>) =>
            /\ ~result.undefined
            /\ labels.tab["target"] = 6
            /\ EmittedWords = <<61440, 63489, 18112, 18288>>

C3_Witness ==
    /\ Assembled
    /\ asmLines = <<"  bl target", "  nop", "target:", "  bx lr">>
    /\ log2[1].locals.conv[1].bin = Num(2)

\* The returned sequence ends with the half-word 0x0000.
EndsWithZero ==
    /\ Len(result.value) > 0
    /\ result.value[Len(result.value)] = (IF build = "src" THEN "0x0" ELSE 0)

\* C4: what assembleBlock returns on success has even length: one 0x0000 is
\* appended when the instructions emitted an odd number of half-words
\* ('nop' returns [0x46C0, 0x0000]), nothing when they emitted an even one.
C4_EvenLength ==
    Assembled =>
        /\ Len(result.value) % 2 = 0
        /\ Len(result.value) = Len(EmittedWords) + (Len(EmittedWords) % 2)
        /\ (Len(EmittedWords) % 2 = 1) => EndsWithZero

\* C5: when a line fails in pass 1 or in pass 2, assembleBlock returns the
\* failure value and nothing of what was emitted for earlier lines; it
\* returns a sequence only when both passes went through every line.
C5_NoPartialOutput ==
    Returned =>
        IF \/ \E k \in 1..Len(log1) : log1[k].threw
           \/ \E k \in 1..Len(log2) : log2[k].threw
        THEN result.undefined /\ result.value = <<>>
        ELSE /\ ~result.undefined
             /\ Len(log1) = Len(asmLines)
             /\ Len(log2) = Len(asmLines)

\* A second-pass failure after half-words were emitted.
C5_Witness ==
    /\ Returned
    /\ Len(log2) > 1
    /\ log2[Len(log2)].threw
    /\ Len(machineCode) > 0
    /\ result.undefined

\* The arguments of line k that the converter named f read, with a number
\* for convertInt's binValue.
NumericArgs(k, f) ==
    { i \in 1..Len(log2[k].locals.conv) :
        ArgFunction(log2[k], i).f = f /\ ~log2[k].locals.conv[i].bin.nan }

\* C6: uint(off, bits, shift) accepts v exactly when
\* 0 <= v <= (2^bits - 1) * 2^shift and v is a multiple of 2^shift;
\* 'mov r0,#255' assembles, 'mov r0,#256' makes the call fail, and
\* 'mov r0,#42' emits 0x202A.
C6_UnsignedRange ==
    /\ \A k \in 1..Len(log2) : \A i \in NumericArgs(k, "uint") :
        LET bits  == ArgFunction(log2[k], i).b
            shift == ArgFunction(log2[k], i).c
            v     == log2[k].locals.conv[i].bin.n
        IN  log2[k].locals.conv[i].ok <=>
                /\ 0 <= v
                /\ v <= (2 ^ bits - 1) * 2 ^ shift
                /\ v % (2 ^ shift) = 0
    /\ (Returned /\ asmLines = <<"mov r0,#255">>) => ~result.undefined
    /\ (Returned /\ asmLines = <<"mov r0,#256">>) => result.undefined
    /\ (Returned /\ asmLines = <<"mov r0,#42">>) =>
            ~result.undefined /\ EmittedWords = <<8234>>

\* 'mov r0,#256': the converter of the immediate read 256 and threw.
C6_Witness ==
    /\ Returned
    /\ asmLines = <<"mov r0,#256">>
    /\ result.undefined
    /\ \E i \in NumericArgs(1, "uint") :
        /\ log2[1].locals.conv[i].bin = Num(256)
        /\ ~log2[1].locals.conv[i].ok

\* C7: sint(off, bits, shift) accepts v exactly when v is a multiple of
\* 2^shift and -2^(bits-1) * 2^shift <= v <= (2^bits - 2^(bits-1) - 1) * 2^shift:
\* the even displacements in [-256, 254] for the conditional branches, in
\* [-2048, 2046] for 'b'.
C7_SignedRange ==
    \A k \in 1..Len(log2) : \A i \in NumericArgs(k, "sint") :
        LET bits  == ArgFunction(log2[k], i).b
            shift == ArgFunction(log2[k], i).c
            v     == log2[k].locals.conv[i].bin.n
        IN  log2[k].locals.conv[i].ok <=>
                /\ v % (2 ^ shift) = 0
                /\ -(2 ^ (bits - 1)) * 2 ^ shift <= v
                /\ v <= (2 ^ bits - 2 ^ (bits - 1) - 1) * 2 ^ shift

\* C8: 'movw r1,#0x1234' assembles: imm4 = 1, i = 0, imm3 = 2, imm8 = 0x34
\* and Rd = 1 in the base 0xF2400000, emitted as 0xF241 then 0x2134.
C8_MovwHex ==
    (Returned /\ asmLines = <<"movw r1,#0x1234">>) =>
        /\ ~result.undefined
        /\ EmittedWords = <<62017, 8500>>

\* C9: a line that holds only the mnemonic assembles for the mnemonics
\* without operands: 'nop' emits 0x46C0, 'wfe' 0xBF20 and 'wfi' 0xBF30.
C9_NoOperands ==
    /\ (Returned /\ asmLines = <<"nop">>) =>
            ~result.undefined /\ EmittedWords = <<18112>>
    /\ (Returned /\ asmLines = <<"wfe">>) =>
            ~result.undefined /\ EmittedWords = <<48928>>
    /\ (Returned /\ asmLines = <<"wfi">>) =>
            ~result.undefined /\ EmittedWords = <<48944>>

\* The placeholder positions of a template, as a bit mask: bit p is the
\* character p places from the end.
PlaceholderBits(base, from, to) ==
    Sum([p \in from..to |->
            IF CharAt(base, Len(base) - 1 - p) \in {"-", "_"} THEN Pow2(p - from) ELSE 0])
PlaceholderMask(base) ==
    Int32OfHalves(<<PlaceholderBits(base, 16, 31), PlaceholderBits(base, 0, 15)>>)

\* C10: for every variant and every operand tuple it accepts, each converter
\* sets bits only at placeholder positions of the template, so the opcode
\* has the template's literal bits; the immediate-offset variants of str,
\* strb, ldr and ldrb, with uint(6, 5, 2), are among them.
C10_LiteralBits ==
    \A k \in 1..Len(log2) :
        (log2[k].kind = "instruction" /\ ~log2[k].threw) =>
            LET literal == -1 - PlaceholderMask(log2[k].locals.base)
            IN  /\ \A i \in 1..Len(log2[k].locals.conv) :
                        And(log2[k].locals.conv[i].bits, literal) = 0
                /\ And(log2[k].locals.opCode, literal) = getOpCode(log2[k].locals.base)

\* The lines of the fragment that define the label called name.
DefinedAt(name) == {k \in 1..Len(asmLines) : Trim(asmLines[k]) = name \o ":"}

\* The lines of the fragment that define a label.
LabelDefinitions ==
    {k \in 1..Len(asmLines) : Trim(asmLines[k]) # "" /\ LastChar(Trim(asmLines[k])) = ":"}

\* C11: a fragment that defines one label name on two lines fails in pass 1,
\* before any half-word is emitted, whatever the two addresses; a fragment
\* that defines every label name at most once never fails at a label line.
C11_LabelRedefinition ==
    Returned =>
        /\ (\E j, k \in LabelDefinitions : j # k /\ Trim(asmLines[j]) = Trim(asmLines[k])) =>
                /\ result.undefined
                /\ log2 = <<>>
                /\ machineCode = <<>>
        /\ (\A j, k \in LabelDefinitions : j # k => Trim(asmLines[j]) # Trim(asmLines[k])) =>
                /\ \A k \in 1..Len(log1) : ~(log1[k].kind = "label" /\ log1[k].threw)
                /\ \A k \in 1..Len(log2) : ~(log2[k].kind = "label" /\ log2[k].threw)

\* C12: a label reference whose name no line of the fragment defines makes
\* the converter that reads it throw, in pass 2: it is never resolved to an
\* address or to the displacement 0; and no converter runs in pass 1.
C12_UnknownLabel ==
    /\ \A k \in 1..Len(log1) : log1[k].locals.conv = <<>>
    /\ \A k \in 1..Len(log2) : \A i \in IntArgs(log2, k) :
            LET text == log2[k].locals.m[i]
            IN  (IsLabelRef(text) /\ DefinedAt(RefName(text)) = {}) =>
                    /\ log2[k].threw
                    /\ ~log2[k].locals.conv[i].ok

\* C13: two calls of assembleBlock on the same lines return equal results,
\* whatever calls on other lines the program made in between.
C13_Deterministic ==
    Returned =>
        \A c \in 1..Len(calls) :
            calls[c].asmLines = asmLines => calls[c].result = result

\* The third call repeats the first, after a call on other lines, and
\* returns half-words.
C13_Witness ==
    /\ Returned
    /\ Len(calls) = 2
    /\ calls[1].asmLines = asmLines
    /\ calls[2].asmLines # asmLines
    /\ ~result.undefined
    /\ Len(result.value) > 0

\* The lines '.word 0x<hex digits>' and '.word <decimal digits>' that pass 2
\* assembled.
WordLines ==
    { k \in 1..Len(log2) :
        /\ log2[k].locals.opName = ".word"
        /\ ~log2[k].threw
        /\ log2[k].locals.args =
                (IF log2[k].locals.variant = 1 THEN "0x" ELSE "") \o log2[k].locals.m[1] }

\* The value v of the literal of line k, as <<(v >> 16) & 0xFFFF, v & 0xFFFF>>.
WordValue(k) ==
    DigitsHalves(log2[k].locals.m[1], Len(log2[k].locals.m[1]),
                 IF log2[k].locals.variant = 1 THEN 16 ELSE 10)

\* C14: '.word' with a value v of 0 .. 2^32 - 1, in hex or in decimal, emits
\* v & 0xFFFF and then (v >> 16) & 0xFFFF, with no artefact of the sign
\* when bit 31 of v is set: '.word 0x80000000' emits 0x0000 then 0x8000.
C14_WordHalves ==
    /\ \A k \in WordLines : log2[k].words = <<WordValue(k)[2], WordValue(k)[1]>>
    /\ (Returned /\ asmLines = <<".word 0x80000000">>) =>
            ~result.undefined /\ EmittedWords = <<0, 32768>>

\* The addr the callback found when it was called for line k.
AddrBefore(log, k) == IF k = 1 THEN 0 ELSE log[k - 1].addr

\* The name a label line defines.
LabelName(line) == Substr2(line, 0, Len(line) - 1)

\* C15: for every line pass 2 reaches, pass 2 selects the variant pass 1
\* selected; the address pass 2 holds at a line 'NAME:' is the address pass 1
\* recorded for NAME; and both passes finish with the same address.
C15_PassesAgree ==
    /\ Len(log2) <= Len(log1)
    /\ \A k \in 1..Len(log2) :
            /\ log2[k].kind = log1[k].kind
            /\ log2[k].locals.variant = log1[k].locals.variant
            /\ log2[k].locals.base = log1[k].locals.base
            /\ AddrBefore(log2, k) = AddrBefore(log1, k)
            /\ log2[k].kind = "label" =>
                    AddrBefore(log2, k) = log1[k].newLabels[LabelName(log1[k].line)]
    /\ (pc = "pass2" /\ lineNo > Len(asmLines)) =>
            addr = AddrBefore(log1, Len(log1) + 1)

\* Pass 2 went through a 32-bit line, a 16-bit line and a label line.
C15_Witness ==
    /\ pc = "pass2"
    /\ lineNo > Len(asmLines)
    /\ asmLines = <<"  bl target", "  nop", "target:", "  bx lr">>
    /\ log1[3].newLabels["target"] = 6
    /\ addr = 8

\* C16: in both passes addr starts at 0 and is even after every line; a
\* blank line and a label line leave addr and the output alone, an
\* instruction line adds 2 for a 16-bit template and 4 for a 32-bit one; so
\* every address of the label table is even.
C16_EvenAddresses ==
    /\ (pc \in {"pass1", "pass2"} /\ lineNo = 1) => addr = 0
    /\ addr % 2 = 0
    /\ \A log \in {log1, log2} : \A k \in 1..Len(log) :
            /\ log[k].addr % 2 = 0
            /\ log[k].kind \in {"blank", "label"} =>
                    /\ log[k].addr = AddrBefore(log, k)
                    /\ log[k].words = <<>>
            /\ (log[k].kind = "instruction" /\ ~log[k].threw) =>
                    log[k].addr = AddrBefore(log, k)
                                  + (IF Len(log[k].locals.base) > 16 THEN 4 ELSE 2)
    /\ \A name \in DOMAIN newLabels : newLabels[name] % 2 = 0
    /\ \A name \in DOMAIN labels.tab : labels.tab[name] % 2 = 0

\* A label line, a 16-bit and a 32-bit instruction went by.
C16_Witness ==
    /\ pc = "pass2"
    /\ Len(log2) = 3
    /\ log2[1].kind = "label"
    /\ log2[2].kind = "instruction" /\ log2[2].addr = 2
    /\ log2[3].kind = "instruction" /\ log2[3].addr = 6
    /\ labels.tab["a"] = 0

\* C17: in pass 2 a 16-bit variant emits the one half-word opcode & 0xFFFF,
\* a 32-bit variant (opcode >> 16) & 0xFFFF then opcode & 0xFFFF; every
\* half-word is in 0 .. 65535; and after each instruction line twice the
\* number of half-words emitted so far is the address.
C17_Emission ==
    \A k \in 1..Len(log2) :
        (log2[k].kind = "instruction" /\ ~log2[k].threw) =>
            /\ log2[k].words =
                    IF Len(log2[k].locals.base) > 16
                    THEN <<(log2[k].locals.opCode \div 65536) % 65536,
                           log2[k].locals.opCode % 65536>>
                    ELSE <<log2[k].locals.opCode % 65536>>
            /\ \A w \in 1..Len(log2[k].words) : log2[k].words[w] \in 0..65535
            /\ 2 * Len(WordsOf(log2, k)) = log2[k].addr

\* A 32-bit opcode with bit 31 set, then 16-bit ones, were emitted.
C17_Witness ==
    /\ Assembled
    /\ asmLines = <<"  bl target", "  nop", "target:", "  bx lr">>
    /\ log2[1].locals.opCode < 0
    /\ log2[1].words = <<61440, 63489>>
    /\ log2[4].words = <<18288>>

\* The index of the first tab or space of a line, its length if it has none.
FirstWhiteSpace(line) ==
    IF Inked(line) = 0..(Len(line) - 1) THEN Len(line)
    ELSE Min((0..(Len(line) - 1)) \ Inked(line))

\* C18: the mnemonic of a trimmed instruction line is the text before its
\* first tab or space, whichever comes first, and the argument blob is the
\* rest without its tabs and spaces: 'mov r0,<TAB>#1' has the mnemonic 'mov'
\* and the blob 'r0,#1', and assembles like 'mov r0,#1'.
C18_Tokenizer ==
    /\ \A k \in 1..Len(log1) :
            log1[k].kind = "instruction" =>
                /\ log1[k].locals.opName =
                        Substr2(log1[k].line, 0, FirstWhiteSpace(log1[k].line))
                /\ log1[k].locals.args =
                        StripWhiteSpace(Substr(log1[k].line, FirstWhiteSpace(log1[k].line)))
    /\ (Returned /\ asmLines = <<"mov r0,\t#1">>) =>
            ~result.undefined /\ EmittedWords = <<8193>>

\* The bits [off, off + bits) of a natural number.
Field(r, off, bits) == (r \div (2 ^ off)) % (2 ^ bits)

\* C19: for uint(off, bits, shift) and every value v it accepts, the bits
\* [off, off + bits) of what it returns are v >> shift, and every other bit
\* of it is 0.
C19_UnsignedRoundTrip ==
    \A k \in 1..Len(log2) : \A i \in NumericArgs(k, "uint") :
        log2[k].locals.conv[i].ok =>
            LET f == ArgFunction(log2[k], i)
                v == log2[k].locals.conv[i].bin.n
                r == log2[k].locals.conv[i].bits
            IN  /\ r >= 0
                /\ Field(r, f.a, f.b) = v \div (2 ^ f.c)
                /\ r = Field(r, f.a, f.b) * (2 ^ f.a)

\* uint(6, 5, 2) took 124, the largest value it accepts.
C19_Witness ==
    /\ Assembled
    /\ asmLines = <<"str r5,[r6,#124]">>
    /\ log2[1].locals.conv[3].bin = Num(124)
    /\ log2[1].locals.conv[3].bits = 1984

\* A field of the given width read as a two's-complement number.
SignExtend(field, bits) == IF field >= 2 ^ (bits - 1) THEN field - 2 ^ bits ELSE field

\* C20: sint(off, bits, shift) accepts every negative multiple v of 2^shift
\* with v >= -2^(bits-1) * 2^shift, and the bits [off, off + bits) of what
\* it returns, sign-extended from `bits` bits, are v >> shift.
C20_SignedRoundTrip ==
    \A k \in 1..Len(log2) : \A i \in NumericArgs(k, "sint") :
        LET f == ArgFunction(log2[k], i)
            v == log2[k].locals.conv[i].bin.n
            r == log2[k].locals.conv[i].bits
        IN  (v < 0 /\ v % (2 ^ f.c) = 0 /\ v >= -(2 ^ (f.b - 1)) * 2 ^ f.c) =>
                /\ log2[k].locals.conv[i].ok
                /\ SignExtend(Field(r, f.a, f.b), f.b) = v \div (2 ^ f.c)

\* The arguments of line k that thumb2ImmediateT3 read.
Thumb2Args(k) ==
    { i \in 1..Len(log2[k].locals.conv) :
        ArgFunction(log2[k], i).f = "thumb2ImmediateT3" }

\* C21: thumb2ImmediateT3 accepts '#' and an integer v exactly when
\* 0 <= v <= 65535, and returns (i << 26) | (imm4 << 16) | (imm3 << 12) | imm8
\* with imm4 = (v >> 12) & 0xF, i = (v >> 11) & 1, imm3 = (v >> 8) & 7 and
\* imm8 = v & 0xFF, from which v is read back as imm4:i:imm3:imm8; a text
\* without '#' fails.
C21_Thumb2Immediate ==
    /\ \A k \in 1..Len(log2) : \A i \in Thumb2Args(k) :
          LET text == log2[k].locals.m[i]
              v    == ParseInt(Substr(text, 1), 0).n
              r    == log2[k].locals.conv[i].bits
          IN  /\ log2[k].locals.conv[i].ok <=>
                    (CharAt(text, 0) = "#" /\ 0 <= v /\ v <= 65535)
              /\ log2[k].locals.conv[i].ok =>
                    /\ r = ((v \div 2048) % 2) * 67108864 + ((v \div 4096) % 16) * 65536
                           + ((v \div 256) % 8) * 4096 + (v % 256)
                    /\ v = Field(r, 16, 4) * 4096 + Field(r, 26, 1) * 2048
                           + Field(r, 12, 3) * 256 + Field(r, 0, 8)
    /\ (Returned /\ asmLines \in {<<"movw r3,4660">>, <<"movw r3,#-1">>,
                                  <<"movw r3,#65536">>}) =>
            result.undefined

\* movw took 63487 = 0xF7FF: every field but i is all ones.
C21_Witness ==
    /\ Assembled
    /\ asmLines = <<"movw r3,#63487">>
    /\ log2[1].locals.conv[2].bits = 1011967

\* C22: a conditional branch or 'b' to a label, with the displacement
\* d = labels[NAME] - (A + 4), that assembles encodes d: its field,
\* sign-extended from its width and doubled, is d.  A forward conditional
\* branch with d = 256 is rejected.
C22_BranchTarget ==
    /\ \A k \in 1..Len(log2) : \A i \in NumericArgs(k, "sint") :
          LET text == log2[k].locals.m[i]
              f    == ArgFunction(log2[k], i)
          IN  (IsLabelRef(text) /\ IndexOf(text, "+") < 0 /\ log2[k].locals.conv[i].ok) =>
                  \A j \in DefinedAt(text) :
                      2 * SignExtend(Field(log2[k].locals.conv[i].bits, f.a, f.b), f.b)
                          = AddrBefore(log1, j) - (AddrBefore(log2, k) + 4)
    /\ (Returned /\ asmLines = FarBranch("beq", 256)) => result.undefined

\* The pattern of a variant, anchored at both ends of the blob.
Anchored(regex) == [regex EXCEPT !.bol = TRUE, !.eol = TRUE]

\* C23: a variant is selected only when its pattern accounts for the whole
\* argument blob: for add, sub, mov, movs, cmp and movw the blob 'r0,r1,#3'
\* is never matched by the variant 'rD,#imm', which would encode 'r1,#3',
\* and 'nop' followed by a blob is not accepted.
C23_WholeBlob ==
    /\ \A k \in 1..Len(log1) :
          (log1[k].kind = "instruction" /\ log1[k].locals.variant # 0) =>
              Match(Anchored(ops[log1[k].locals.opName][log1[k].locals.variant].regex),
                    log1[k].locals.args).ok
    /\ \A op \in {"add", "sub", "mov", "movs", "cmp", "movw"} :
          (Returned /\ asmLines = <<op \o " r0,r1,#3">>) =>
              \/ result.undefined
              \/ Len(log2[1].locals.m) = 3
    /\ (Returned /\ asmLines = <<"nop r0">>) => result.undefined

\* C24: pass 2 does not change the label table of pass 1 for a label the
\* fragment defines, a label named PC included: what a converter of pass 2
\* reads for the name N is the address pass 1 gave N, and a reference to N
\* resolves to that address minus the address of the instruction plus 4.
C24_LabelTableFrame ==
    /\ pc = "pass2" =>
          \A j \in 1..Len(log1) :
              log1[j].kind = "label" =>
                  labels.tab[LabelName(log1[j].line)] = AddrBefore(log1, j)
    /\ \A k \in 1..Len(log2) : \A i \in IntArgs(log2, k) :
          LET text == log2[k].locals.m[i]
          IN  (IsLabelRef(text) /\ IndexOf(text, "+") < 0) =>
                  \A j \in DefinedAt(text) :
                      log2[k].locals.conv[i].bin =
                          Num(AddrBefore(log1, j) - (AddrBefore(log2, k) + 4))

====
